---- MODULE Spec2Model ----
(***************************************************************************)
(* A model of the banking API: the account routes                          *)
(* (src/app/routes/accounts.py), the transaction routes                    *)
(* (src/app/routes/transactions.py), the budget routes with the category   *)
(* registry (src/app/routes/budgets.py, transactions_categories.py) and    *)
(* the bill routes (src/app/routes/bills.py), over the tables of           *)
(* src/app/models.py.                                                      *)
(*                                                                         *)
(* Balances and transfer amounts are counted in units of 0.01 (the scale   *)
(* of Numeric(10, 2)).                                                     *)
(* Spec, SpecAccounts, SpecOwners, SpecBudgets and SpecBills run every     *)
(* request handler as one atomic step (requests served one after the       *)
(* other); SpecConc runs                                                   *)
(* create_transaction as the steps of several concurrent request handlers, *)
(* each with its own ORM session.                                          *)
(***************************************************************************)
EXTENDS Integers, Sequences, FiniteSets, TLC

VARIABLES
    accounts,         \* the account table: id -> row, for the ids that exist
    next_account_id,  \* the account table's AUTO_INCREMENT counter
    transactions,     \* the transaction table, in insertion order (id = index)
    response,         \* the response of the request served last (serial handlers)
    sessions,         \* concurrent create_transaction handlers: handler -> session
    start_balance,    \* history: the balances when the concurrent handlers started
    bills,            \* the bill table: id -> row, for the ids that exist
    next_bill_id,     \* the bill table's AUTO_INCREMENT counter
    budgets,          \* the budget table, in insertion order (id = index)
    categories,       \* the transaction_category table: names, in insertion order
    today             \* the date of datetime.now(), in days

planning_vars == <<bills, next_bill_id, budgets, categories, today>>

vars == <<accounts, next_account_id, transactions,
          response, sessions, start_balance,
          bills, next_bill_id, budgets, categories, today>>

----------------------------------------------------------------------------
(* Bounds of the model. *)

MaxAccounts == 3
MaxBalance == 2
MaxTransactions == 1
NumHandlers == 2

(* Program constants. *)
MinAccountNumberLen == 10

Users == {1, 2}
AccountIds == 1..MaxAccounts
Handlers == 1..NumHandlers
AccountTypes == {"savings", "checking"}

----------------------------------------------------------------------------
(* Account numbers are strings, modelled as sequences of characters. *)

DigitChars == {"0", "1", "2", "3", "4", "5", "6", "7", "8", "9"}

Rep(n, c) == [i \in 1..n |-> c]

\* str.isdigit(): non-empty and every character a digit
IsDigit(s) == Len(s) > 0 /\ \A i \in 1..Len(s) : s[i] \in DigitChars

\* The account numbers requests carry: exactly long enough, longer, too
\* short, not numeric, empty.
AccountNumberInputs ==
    { Rep(MinAccountNumberLen - 1, "0") \o <<"1">>,
      Rep(MinAccountNumberLen, "0") \o <<"1">>,
      Rep(MinAccountNumberLen - 2, "0") \o <<"1">>,
      Rep(MinAccountNumberLen - 1, "0") \o <<"x">>,
      << >> }

----------------------------------------------------------------------------
(* Responses: the HTTP status, the error or message text, and the JSON     *)
(* body of a read (a sequence of rows).                                     *)

Resp(status, text) == [status |-> status, text |-> text, body |-> << >>]

NoResponse == Resp(0, "")

InvalidAccountNumber ==
    Resp(400, "Account number must be at least 10 digits and numeric.")
DuplicateAccountNumber == Resp(400, "Account number already exists")
NegativeInitialBalance == Resp(400, "Initial balance cannot be negative.")
AccountCreated == Resp(201, "Account created successfully")

----------------------------------------------------------------------------
(* The state after construction: empty tables, no request served. *)

IdleSession == [pc |-> "idle"]

Init ==
    /\ accounts = << >>
    /\ next_account_id = 1
    /\ transactions = << >>
    /\ response = NoResponse
    /\ sessions = [h \in Handlers |-> IdleSession]
    /\ start_balance = << >>
    /\ bills = << >>
    /\ next_bill_id = 1
    /\ budgets = << >>
    /\ categories = << >>
    /\ today = 0

----------------------------------------------------------------------------
(* create_account *)

CreateAccountInputs ==
    { [account_type |-> t, account_number |-> n] :
        t \in AccountTypes, n \in AccountNumberInputs }
    \cup
    { [account_type |-> t, account_number |-> n, balance |-> b] :
        t \in AccountTypes, n \in AccountNumberInputs, b \in -1..MaxBalance }

\* Account.query.filter_by(account_number=...).first() finds a row
NumberInUse(accts, number) ==
    \E id \in DOMAIN accts : accts[id].account_number = number

\* data.get('balance', 0.0)
InitialBalance(data) ==
    IF "balance" \in DOMAIN data THEN data.balance ELSE 0

\* Mutant: the lookup of the number is left out.
CreateAccountResponse_NoDuplicateCheck(accts, data) ==
    IF ~IsDigit(data.account_number)
          \/ Len(data.account_number) < MinAccountNumberLen
    THEN InvalidAccountNumber
    ELSE IF InitialBalance(data) < 0
    THEN NegativeInitialBalance
    ELSE AccountCreated

\* Mutant: the length test is off by one (<= for <).
CreateAccountResponse_LengthOffByOne(accts, data) ==
    IF ~IsDigit(data.account_number)
          \/ Len(data.account_number) <= MinAccountNumberLen
    THEN InvalidAccountNumber
    ELSE IF NumberInUse(accts, data.account_number)
    THEN DuplicateAccountNumber
    ELSE IF InitialBalance(data) < 0
    THEN NegativeInitialBalance
    ELSE AccountCreated

\* The response of create_account, by its checks in order.
CreateAccountResponse(accts, data) ==
    IF ~IsDigit(data.account_number)
          \/ Len(data.account_number) < MinAccountNumberLen
    THEN InvalidAccountNumber
    ELSE IF NumberInUse(accts, data.account_number)
    THEN DuplicateAccountNumber
    ELSE IF InitialBalance(data) < 0
    THEN NegativeInitialBalance
    ELSE AccountCreated

NewAccount(u, data) ==
    [user_id |-> u,
     account_type |-> data.account_type,
     account_number |-> data.account_number,
     balance |-> InitialBalance(data)]

CreateAccount(u, data) ==
    LET r == CreateAccountResponse(accounts, data) IN
    /\ r = AccountCreated => next_account_id <= MaxAccounts
    /\ response' = r
    /\ IF r = AccountCreated
       THEN /\ accounts' = accounts @@ (next_account_id :> NewAccount(u, data))
            /\ next_account_id' = next_account_id + 1
       ELSE UNCHANGED <<accounts, next_account_id>>
    /\ UNCHANGED <<transactions, sessions, start_balance>>
    /\ UNCHANGED planning_vars

----------------------------------------------------------------------------
(* Scoped lookup and get_account *)

AccountNotFound == Resp(404, "Account not found")

\* Mutant: the lookup filters by id alone.
OwnedBy_AnyOwner(accts, id, u) == id \in DOMAIN accts

\* Account.query.filter_by(id=id, user_id=user_id).first() finds a row
OwnedBy(accts, id, u) == id \in DOMAIN accts /\ accts[id].user_id = u

\* The JSON body of get_account
AccountBody(accts, id) ==
    [id |-> id,
     account_type |-> accts[id].account_type,
     account_number |-> accts[id].account_number,
     balance |-> accts[id].balance]

GetAccountResponse(accts, id, u) ==
    IF ~OwnedBy(accts, id, u)
    THEN AccountNotFound
    ELSE [status |-> 200, text |-> "", body |-> <<AccountBody(accts, id)>>]

GetAccount(u, id) ==
    /\ response' = GetAccountResponse(accounts, id, u)
    /\ UNCHANGED <<accounts, next_account_id, transactions, sessions,
                   start_balance>>
    /\ UNCHANGED planning_vars

----------------------------------------------------------------------------
(* update_account *)

InvalidInput == Resp(400, "Invalid input")
NegativeBalance == Resp(400, "Balance cannot be negative.")
AccountUpdated == Resp(200, "Account updated successfully")

\* The response of update_account, by its checks in order.  An empty JSON
\* object is falsy ("not data").
UpdateAccountResponse(accts, id, u, data) ==
    IF ~OwnedBy(accts, id, u)
    THEN AccountNotFound
    ELSE IF DOMAIN data = {}
    THEN InvalidInput
    ELSE IF "balance" \in DOMAIN data /\ data.balance < 0
    THEN NegativeBalance
    ELSE AccountUpdated

\* The row as committed: data.get('account_type', account.account_type),
\* and the balance when the patch holds one.
UpdatedAccount(row, data) ==
    [row EXCEPT
        !.account_type =
            IF "account_type" \in DOMAIN data THEN data.account_type ELSE @,
        !.balance =
            IF "balance" \in DOMAIN data THEN data.balance ELSE @]

\* update_account, were the account_type it assigns before the balance
\* check persisted when the check fails.
UpdateAccount_TypePersisted(u, id, data) ==
    LET r == UpdateAccountResponse(accounts, id, u, data) IN
    /\ response' = r
    /\ accounts' =
           IF r = AccountUpdated
           THEN [accounts EXCEPT ![id] = UpdatedAccount(@, data)]
           ELSE IF r = NegativeBalance /\ "account_type" \in DOMAIN data
           THEN [accounts EXCEPT ![id].account_type = data.account_type]
           ELSE accounts
    /\ UNCHANGED <<next_account_id, transactions, sessions, start_balance>>
    /\ UNCHANGED planning_vars

\* A handler that returns before db.session.commit() persists nothing: the
\* request's session, with the attributes it has set, is dropped with it.
UpdateAccount(u, id, data) ==
    LET r == UpdateAccountResponse(accounts, id, u, data) IN
    /\ response' = r
    /\ accounts' =
           IF r = AccountUpdated
           THEN [accounts EXCEPT ![id] = UpdatedAccount(@, data)]
           ELSE accounts
    /\ UNCHANGED <<next_account_id, transactions, sessions, start_balance>>
    /\ UNCHANGED planning_vars

----------------------------------------------------------------------------
(* delete_account *)

AccountDeleted == Resp(200, "Account deleted successfully")
\* the commit raised (IntegrityError); Flask answers 500
ServerError == Resp(500, "Internal Server Error")

\* A transaction row or a bill row holds the account's id in a foreign key.
Referenced(txs, bls, id) ==
    \/ \E i \in 1..Len(txs) :
           txs[i].from_account_id = id \/ txs[i].to_account_id = id
    \/ \E b \in DOMAIN bls : bls[b].account_id = id

Without(accts, id) == [i \in DOMAIN accts \ {id} |-> accts[i]]

\* What the DELETE can come to.  The models declare the foreign keys without
\* ON DELETE; whether deleting a referenced row is refused depends on the
\* database engine (InnoDB refuses it, SQLite as configured by default and
\* MyISAM do not), so both outcomes are possible for a referenced account.
DeleteOutcomes(accts, txs, bls, id, u) ==
    IF ~OwnedBy(accts, id, u)
    THEN {AccountNotFound}
    ELSE IF Referenced(txs, bls, id)
    THEN {AccountDeleted, ServerError}
    ELSE {AccountDeleted}

\* delete_account, were the rows that reference the account deleted with it
\* (ON DELETE CASCADE).
DeleteAccount_Cascade(u, id) ==
    \E r \in DeleteOutcomes(accounts, transactions, bills, id, u) :
        /\ response' = r
        /\ accounts' =
               IF r = AccountDeleted THEN Without(accounts, id) ELSE accounts
        /\ transactions' =
               IF r = AccountDeleted
               THEN SelectSeq(transactions,
                              LAMBDA t : /\ t.from_account_id # id
                                         /\ t.to_account_id # id)
               ELSE transactions
        /\ UNCHANGED <<next_account_id, sessions, start_balance>>
        /\ UNCHANGED planning_vars

DeleteAccount(u, id) ==
    \E r \in DeleteOutcomes(accounts, transactions, bills, id, u) :
        /\ response' = r
        /\ accounts' =
               IF r = AccountDeleted THEN Without(accounts, id) ELSE accounts
        /\ UNCHANGED <<next_account_id, transactions, sessions, start_balance>>
        /\ UNCHANGED planning_vars

----------------------------------------------------------------------------
(* create_transaction *)

UnauthorizedSource == Resp(403, "Unauthorized transaction")
RecipientNotFound == Resp(404, "Recipient account not found")
InvalidAmount ==
    Resp(400, "Invalid transaction amount. Amount must be greater than zero.")
InsufficientFunds == Resp(403, "Insufficient funds in the source account.")
SameAccountTransfer == Resp(400, "Cannot transfer to the same account.")
TransactionSuccessful == Resp(201, "Transaction successful")

\* A JSON number of the request body: its value, and whether json.loads
\* yields a float (a literal with a fraction or an exponent, 150.75 or 2.0)
\* or an int (150).
Number(n, is_float) == [value |-> n, is_float |-> is_float]

\* Mutant: the balance is not compared with the amount.
CheckTransfer_NoFundsCheck(from_id, from_balance, to_id, amount) ==
    IF amount.value <= 0
    THEN InvalidAmount
    ELSE IF from_id = to_id
    THEN SameAccountTransfer
    ELSE IF amount.is_float
    THEN ServerError
    ELSE TransactionSuccessful

\* Mutant: the accounts are compared before the amount is looked at.
CheckTransfer_SameAccountFirst(from_id, from_balance, to_id, amount) ==
    IF from_id = to_id
    THEN SameAccountTransfer
    ELSE IF amount.value <= 0
    THEN InvalidAmount
    ELSE IF from_balance < amount.value
    THEN InsufficientFunds
    ELSE IF amount.is_float
    THEN ServerError
    ELSE TransactionSuccessful

\* The checks made on the two loaded accounts, in order, and then the
\* arithmetic of line 205.  A loaded Account.balance is a decimal.Decimal
\* (Numeric(10, 2), asdecimal by default); comparing it with a float works,
\* but "Decimal -= float" raises TypeError, which Flask answers with 500
\* before anything is written.
CheckTransfer_NoSameAccountCheck(from_id, from_balance, to_id, amount) ==
    IF amount.value <= 0 THEN InvalidAmount
    ELSE IF from_balance < amount.value THEN InsufficientFunds
    ELSE IF amount.is_float THEN ServerError
    ELSE TransactionSuccessful

CheckTransfer(from_id, from_balance, to_id, amount) ==
    IF amount.value <= 0
    THEN InvalidAmount
    ELSE IF from_balance < amount.value
    THEN InsufficientFunds
    ELSE IF from_id = to_id
    THEN SameAccountTransfer
    ELSE IF amount.is_float
    THEN ServerError
    ELSE TransactionSuccessful

\* The response of create_transaction when nothing runs between its lines.
\* The response, were the source account looked up by id alone.
CreateTransactionResponse_AnySource(accts, u, data) ==
    IF data.from_account_id \notin DOMAIN accts
    THEN UnauthorizedSource
    ELSE IF data.to_account_id \notin DOMAIN accts
    THEN RecipientNotFound
    ELSE CheckTransfer(data.from_account_id,
                       accts[data.from_account_id].balance,
                       data.to_account_id, data.amount)

CreateTransactionResponse(accts, u, data) ==
    IF ~OwnedBy(accts, data.from_account_id, u)
    THEN UnauthorizedSource
    ELSE IF data.to_account_id \notin DOMAIN accts
    THEN RecipientNotFound
    ELSE CheckTransfer(data.from_account_id,
                       accts[data.from_account_id].balance,
                       data.to_account_id, data.amount)

\* Transaction(...): data.get('description', "")
NewTransaction(data) ==
    [from_account_id |-> data.from_account_id,
     to_account_id |-> data.to_account_id,
     amount |-> data.amount.value,
     type |-> data.type,
     description |->
         IF "description" \in DOMAIN data THEN data.description ELSE ""]

\* from_account.balance -= amount; to_account.balance += amount
Debit(balance, amount) == balance - amount
Credit(balance, amount) == balance + amount

\* Mutant: the transaction row is added and committed before the funds are
\* checked.
CreateTransaction_RowBeforeChecks(u, data) ==
    LET r == CreateTransactionResponse(accounts, u, data) IN
    /\ r \in {TransactionSuccessful, InsufficientFunds}
           => Len(transactions) < MaxTransactions
    /\ response' = r
    /\ accounts' =
           IF r = TransactionSuccessful
           THEN [accounts EXCEPT
                    ![data.from_account_id].balance =
                        Debit(@, data.amount.value),
                    ![data.to_account_id].balance =
                        Credit(@, data.amount.value)]
           ELSE accounts
    /\ transactions' =
           IF r \in {TransactionSuccessful, InsufficientFunds}
           THEN Append(transactions, NewTransaction(data))
           ELSE transactions
    /\ UNCHANGED <<next_account_id, sessions, start_balance>>
    /\ UNCHANGED planning_vars

CreateTransaction(u, data) ==
    LET r == CreateTransactionResponse(accounts, u, data) IN
    /\ r = TransactionSuccessful => Len(transactions) < MaxTransactions
    /\ response' = r
    /\ IF r = TransactionSuccessful
       THEN /\ accounts' =
                  [accounts EXCEPT
                      ![data.from_account_id].balance =
                          Debit(@, data.amount.value),
                      ![data.to_account_id].balance =
                          Credit(@, data.amount.value)]
            /\ transactions' = Append(transactions, NewTransaction(data))
       ELSE UNCHANGED <<accounts, transactions>>
    /\ UNCHANGED <<next_account_id, sessions, start_balance>>
    /\ UNCHANGED planning_vars

----------------------------------------------------------------------------
(* get_transactions, get_transaction *)

TransactionNotFound == Resp(404, "Transaction not found")

\* The foreign keys from the transaction table to the account table.
TransactionAccountKeys == {"from_account_id", "to_account_id"}

\* Transaction.query.join(Account): a join with no ON clause is made along
\* the one foreign key between the two tables, and raises
\* AmbiguousForeignKeysError when there is more than one.
JoinIsAmbiguous == Cardinality(TransactionAccountKeys) # 1

\* The rows of Transaction JOIN Account ... WHERE Account.user_id = u, as the
\* ids (indexes) of the transaction rows, for a join along key k.
JoinAccount(txs, accts, k, u) ==
    { i \in 1..Len(txs) :
        /\ txs[i][k] \in DOMAIN accts
        /\ accts[txs[i][k]].user_id = u }

TransactionBody(txs, i) ==
    [id |-> i, amount |-> txs[i].amount, type |-> txs[i].type,
     description |-> txs[i].description]

\* The rows selected, in id order.
RowsOf(txs, ids) ==
    LET all == [i \in 1..Len(txs) |-> TransactionBody(txs, i)] IN
    SelectSeq(all, LAMBDA row : row.id \in ids)

\* The response of get_transactions; account_id = 0 stands for a request
\* without the account_id argument ("if account_id:" is false for both).
GetTransactionsResponse(txs, accts, u, account_id) ==
    IF JoinIsAmbiguous
    THEN ServerError
    ELSE LET k == CHOOSE key \in TransactionAccountKeys : TRUE
             joined == JoinAccount(txs, accts, k, u)
             ids == IF account_id # 0
                    THEN { i \in joined : txs[i].from_account_id = account_id }
                    ELSE joined
         IN  [status |-> 200, text |-> "", body |-> RowsOf(txs, ids)]

GetTransactionResponse(txs, accts, u, id) ==
    IF JoinIsAmbiguous
    THEN ServerError
    ELSE LET k == CHOOSE key \in TransactionAccountKeys : TRUE IN
         IF id \in JoinAccount(txs, accts, k, u)
         THEN [status |-> 200, text |-> "", body |-> <<TransactionBody(txs, id)>>]
         ELSE TransactionNotFound

GetTransactions(u, account_id) ==
    /\ response' = GetTransactionsResponse(transactions, accounts, u, account_id)
    /\ UNCHANGED <<accounts, next_account_id, transactions, sessions,
                   start_balance>>
    /\ UNCHANGED planning_vars

GetTransaction(u, id) ==
    /\ response' = GetTransactionResponse(transactions, accounts, u, id)
    /\ UNCHANGED <<accounts, next_account_id, transactions, sessions,
                   start_balance>>
    /\ UNCHANGED planning_vars

----------------------------------------------------------------------------
(* Spec: the ledger.  Every handler that writes an account or a            *)
(* transaction, each request served as one atomic step.                    *)

\* The account numbers of the ledger's accounts: the k-th account created
\* gets the k-th number, 0000000001, 0000000002, ...
Digit(k) == CHOOSE c \in DigitChars :
    c = <<"0", "1", "2", "3", "4", "5", "6", "7", "8", "9">>[k + 1]

LedgerCreateInputs(k) ==
    { [account_type |-> "savings",
       account_number |-> Rep(MinAccountNumberLen - 1, "0") \o <<Digit(k)>>,
       balance |-> b] : b \in -1..MaxBalance }

LedgerUpdateInputs ==
    { [balance |-> b] : b \in -1..MaxBalance }

\* The amounts requests carry: zero, and more than any balance created, as
\* JSON ints; the amounts between as JSON ints and as JSON floats.
AmountInputs ==
    { Number(n, FALSE) : n \in 0..(MaxBalance + 1) }
        \cup { Number(n, TRUE) : n \in 1..MaxBalance }

TransferInputs ==
    { [from_account_id |-> f, to_account_id |-> t, amount |-> a,
       type |-> "transfer"] :
        f \in AccountIds, t \in AccountIds, a \in AmountInputs }

Next ==
    \/ \E u \in Users, data \in LedgerCreateInputs(next_account_id) :
           CreateAccount(u, data)
    \/ \E u \in Users, id \in AccountIds, data \in LedgerUpdateInputs :
           UpdateAccount(u, id, data)
    \/ \E u \in Users, id \in AccountIds : DeleteAccount(u, id)
    \/ \E u \in Users, data \in TransferInputs : CreateTransaction(u, data)
    \/ \E u \in Users, account_id \in {0} \cup AccountIds :
           GetTransactions(u, account_id)
    \/ \E u \in Users, id \in 1..MaxTransactions : GetTransaction(u, id)

Spec == Init /\ [][Next]_vars

----------------------------------------------------------------------------
(* SpecAccounts: the account routes, with every kind of account number,    *)
(* type and balance a request can carry.                                   *)

UpdateAccountInputs ==
    { [balance |-> b] : b \in -1..MaxBalance }
    \cup { [account_type |-> t] : t \in AccountTypes }
    \cup { [account_type |-> t, balance |-> b] :
             t \in AccountTypes, b \in -1..MaxBalance }
    \cup { << >> }

\* The ids requests name: those create_account has issued (the accounts that
\* exist and the deleted ones).
IssuedIds == 1..(next_account_id - 1)

NextAccounts ==
    \/ \E u \in Users, data \in CreateAccountInputs : CreateAccount(u, data)
    \/ \E u \in Users, id \in IssuedIds : GetAccount(u, id)
    \/ \E u \in Users, id \in IssuedIds, data \in UpdateAccountInputs :
           UpdateAccount(u, id, data)
    \/ \E u \in Users, id \in IssuedIds : DeleteAccount(u, id)

SpecAccounts == Init /\ [][NextAccounts]_vars

----------------------------------------------------------------------------
(* SpecConc: create_transaction served by concurrent request handlers.     *)
(* Each handler has its own session: the Account objects it has loaded     *)
(* keep the balance read at load time, and db.session.commit() writes the  *)
(* balances computed from them (UPDATE account SET balance = <value>)      *)
(* together with the new transaction row, as one database transaction.     *)

\* line 179-181: load the source account, scoped to the caller
ReadFrom(h, u, data) ==
    /\ sessions[h].pc = "idle"
    /\ sessions' = [sessions EXCEPT ![h] =
           IF OwnedBy(accounts, data.from_account_id, u)
           THEN [pc |-> "read_to", user_id |-> u, data |-> data,
                 from_balance |-> accounts[data.from_account_id].balance]
           ELSE [pc |-> "done", user_id |-> u, data |-> data,
                 response |-> UnauthorizedSource]]
    /\ UNCHANGED <<accounts, next_account_id, transactions, response,
                   start_balance>>
    /\ UNCHANGED planning_vars

\* line 183-185: load the recipient by primary key.  Query.get() returns
\* the object the session already holds when it is the source account.
ReadTo(h) ==
    LET s == sessions[h] IN
    /\ s.pc = "read_to"
    /\ sessions' = [sessions EXCEPT ![h] =
           IF s.data.to_account_id = s.data.from_account_id
           THEN [pc |-> "commit", user_id |-> s.user_id, data |-> s.data,
                 from_balance |-> s.from_balance,
                 to_balance |-> s.from_balance]
           ELSE IF s.data.to_account_id \in DOMAIN accounts
           THEN [pc |-> "commit", user_id |-> s.user_id, data |-> s.data,
                 from_balance |-> s.from_balance,
                 to_balance |-> accounts[s.data.to_account_id].balance]
           ELSE [pc |-> "done", user_id |-> s.user_id, data |-> s.data,
                 response |-> RecipientNotFound]]
    /\ UNCHANGED <<accounts, next_account_id, transactions, response,
                   start_balance>>
    /\ UNCHANGED planning_vars

\* Mutant: the commit changes the stored balances by the amount (UPDATE
\* account SET balance = balance - <amount>) after checking the loaded one.
Commit_RelativeUpdate(h) ==
    LET s == sessions[h]
        r == CheckTransfer(s.data.from_account_id, s.from_balance,
                           s.data.to_account_id, s.data.amount)
    IN
    /\ s.pc = "commit"
    /\ sessions' = [sessions EXCEPT ![h] =
           [pc |-> "done", user_id |-> s.user_id, data |-> s.data,
            response |-> r]]
    /\ IF r = TransactionSuccessful
       THEN /\ accounts' =
                  [accounts EXCEPT
                      ![s.data.from_account_id].balance =
                          Debit(@, s.data.amount.value),
                      ![s.data.to_account_id].balance =
                          Credit(@, s.data.amount.value)]
            /\ transactions' = Append(transactions, NewTransaction(s.data))
       ELSE UNCHANGED <<accounts, transactions>>
    /\ UNCHANGED <<next_account_id, response, start_balance>>
    /\ UNCHANGED planning_vars

\* line 187-208: the checks on the loaded objects, then the commit
Commit(h) ==
    LET s == sessions[h]
        r == CheckTransfer(s.data.from_account_id, s.from_balance,
                           s.data.to_account_id, s.data.amount)
    IN
    /\ s.pc = "commit"
    /\ sessions' = [sessions EXCEPT ![h] =
           [pc |-> "done", user_id |-> s.user_id, data |-> s.data,
            response |-> r]]
    /\ IF r = TransactionSuccessful
       THEN /\ accounts' =
                  [accounts EXCEPT
                      ![s.data.from_account_id].balance =
                          Debit(s.from_balance, s.data.amount.value),
                      ![s.data.to_account_id].balance =
                          Credit(s.to_balance, s.data.amount.value)]
            /\ transactions' = Append(transactions, NewTransaction(s.data))
       ELSE UNCHANGED <<accounts, transactions>>
    /\ UNCHANGED <<next_account_id, response, start_balance>>
    /\ UNCHANGED planning_vars

\* The tables the handlers start from: two accounts of the ledger, created
\* by create_account with any owners and balances.
ConcAccounts == 1..2

InitConc ==
    /\ \E owner \in [ConcAccounts -> Users],
          balance \in [ConcAccounts -> 0..MaxBalance] :
          /\ accounts =
                 [id \in ConcAccounts |->
                     NewAccount(owner[id],
                                [account_type |-> "savings",
                                 account_number |->
                                     Rep(MinAccountNumberLen - 1, "0")
                                         \o <<Digit(id)>>,
                                 balance |-> balance[id]])]
          /\ start_balance = balance
    /\ next_account_id = 3
    /\ transactions = << >>
    /\ response = NoResponse
    /\ sessions = [h \in Handlers |-> IdleSession]
    /\ bills = << >>
    /\ next_bill_id = 1
    /\ budgets = << >>
    /\ categories = << >>
    /\ today = 0

\* The concurrent requests: positive amounts sent as JSON ints.
ConcTransferInputs ==
    { d \in TransferInputs :
        d.amount.value \in 1..MaxBalance /\ ~d.amount.is_float }

NextConc ==
    \/ \E h \in Handlers, u \in Users, data \in ConcTransferInputs :
           ReadFrom(h, u, data)
    \/ \E h \in Handlers : ReadTo(h)
    \/ \E h \in Handlers : Commit(h)

SpecConc == InitConc /\ [][NextConc]_vars

----------------------------------------------------------------------------
(* SpecOwners: update_account, delete_account and create_transaction,       *)
(* requests served one at a time, over two accounts created by              *)
(* create_account with any owners and balances.                             *)

\* Patches: either type, a balance of zero, a negative balance alone and
\* with a type.
OwnerUpdateInputs ==
    { [account_type |-> t] : t \in AccountTypes }
        \cup { [balance |-> b] : b \in {-1, 0} }
        \cup { [account_type |-> "checking", balance |-> -1] }

\* Transfers between the two accounts, and of an account to itself.
OwnerTransferInputs ==
    { d \in TransferInputs :
        d.from_account_id \in ConcAccounts /\ d.to_account_id \in ConcAccounts }

NextOwners ==
    \/ \E u \in Users, id \in ConcAccounts, data \in OwnerUpdateInputs :
           UpdateAccount(u, id, data)
    \/ \E u \in Users, id \in ConcAccounts : DeleteAccount(u, id)
    \/ \E u \in Users, data \in OwnerTransferInputs :
           CreateTransaction(u, data)

SpecOwners == InitConc /\ [][NextOwners]_vars

----------------------------------------------------------------------------
(* Budgets and bills: amounts and dates.                                    *)
(*                                                                          *)
(* The amounts of budget and bill requests are counted in units of          *)
(* 10^-InputScale, so that a request can carry more decimals than the       *)
(* Numeric(10, 2) column keeps.  Dates are counted in days; today is the    *)
(* day of datetime.now(), which is past that day's midnight.                *)

MaxBudgets == 2
MaxBills == 2
MaxDay == 1
InputScale == 3

\* Numeric(10, 2): two decimals are stored.
NumericScale == 2

One == 10 ^ InputScale
Quantum == 10 ^ (InputScale - NumericScale)

\* The value a Numeric(10, 2) column stores for v: v rounded to two
\* decimals, half away from zero.
Quantize(v) ==
    IF v >= 0
    THEN ((v + Quantum \div 2) \div Quantum) * Quantum
    ELSE 0 - (((0 - v) + Quantum \div 2) \div Quantum) * Quantum

\* A date in a request is a JSON string; a date read from a Date column is
\* a datetime.date object.
DateString(d) == [type |-> "str", well_formed |-> TRUE, day |-> d]
BadDateString == [type |-> "str", well_formed |-> FALSE, day |-> 0]
DateObject(d) == [type |-> "date", well_formed |-> TRUE, day |-> d]

\* datetime.strptime(x, '%Y-%m-%d'): TypeError for an argument that is not
\* a str, ValueError for a string of another format, else the date's
\* midnight.
Strptime(x) ==
    IF x.type # "str" THEN [raised |-> "TypeError", day |-> 0]
    ELSE IF ~x.well_formed THEN [raised |-> "ValueError", day |-> 0]
    ELSE [raised |-> "", day |-> x.day]

\* start_date_obj < datetime.now(): midnight of day d is before now exactly
\* when d is today or earlier.
BeforeNow(d, now) == d <= now

\* The clock moves on between requests.
Tick ==
    /\ today < MaxDay
    /\ today' = today + 1
    /\ UNCHANGED <<accounts, next_account_id, transactions, response,
                   sessions, start_balance, bills, next_bill_id, budgets,
                   categories>>

----------------------------------------------------------------------------
(* create_budget, update_budget *)

InvalidAmountNotPositive ==
    Resp(400, "Invalid amount. Amount must be greater than zero.")
StartDateNotFuture == Resp(400, "Start date must be in the future.")
StartAfterEnd == Resp(400, "Start date cannot be after end date.")
InvalidDateFormat == Resp(400, "Invalid date format. Use YYYY-MM-DD.")
BudgetCreated == Resp(201, "Budget created successfully")
BudgetUpdated == Resp(200, "Budget updated successfully")
BudgetNotFound == Resp(404, "Budget not found")

CategoryNames == {"Groceries", "Rent"}

\* The checks create_budget and update_budget share, on the amount and the
\* two dates as the handler holds them; ok is the response when all pass.
\* Only ValueError is caught: a TypeError of strptime reaches Flask (500).
CheckBudget(amount, start_date, end_date, now, ok) ==
    LET s == Strptime(start_date)
        e == Strptime(end_date)
    IN  IF amount <= 0 THEN InvalidAmountNotPositive
        ELSE IF s.raised = "TypeError" THEN ServerError
        ELSE IF s.raised = "ValueError" THEN InvalidDateFormat
        ELSE IF e.raised = "TypeError" THEN ServerError
        ELSE IF e.raised = "ValueError" THEN InvalidDateFormat
        ELSE IF BeforeNow(s.day, now) THEN StartDateNotFuture
        ELSE IF s.day > e.day THEN StartAfterEnd
        ELSE ok

CreateBudgetResponse(data, now) ==
    CheckBudget(data.amount, data.start_date, data.end_date, now,
                BudgetCreated)

HasCategory(cats, name) == \E i \in 1..Len(cats) : cats[i] = name

\* The category step, were the category inserted without the lookup.
GetOrCreateCategory_AlwaysInsert(cats, name) == Append(cats, name)

\* TransactionCategory.query.filter_by(name=...).first(), and the insert
\* when there is none.
GetOrCreateCategory(cats, name) ==
    IF HasCategory(cats, name) THEN cats ELSE Append(cats, name)

\* Budget(...) as the table stores it: the amount in a Numeric(10, 2)
\* column, the dates in Date columns.
NewBudget(u, data) ==
    [user_id |-> u, name |-> data.name, amount |-> Quantize(data.amount),
     start_date |-> DateObject(data.start_date.day),
     end_date |-> DateObject(data.end_date.day)]

CreateBudget(u, data) ==
    LET r == CreateBudgetResponse(data, today) IN
    /\ r = BudgetCreated => Len(budgets) < MaxBudgets
    /\ response' = r
    /\ IF r = BudgetCreated
       THEN /\ categories' = GetOrCreateCategory(categories, data.name)
            /\ budgets' = Append(budgets, NewBudget(u, data))
       ELSE UNCHANGED <<categories, budgets>>
    /\ UNCHANGED <<accounts, next_account_id, transactions, sessions,
                   start_balance, bills, next_bill_id, today>>

BudgetOwnedBy(bs, id, u) == id \in 1..Len(bs) /\ bs[id].user_id = u

\* data.get(field, stored)
Get(data, field, stored) ==
    IF field \in DOMAIN data THEN data[field] ELSE stored

UpdateBudgetResponse(bs, id, u, data, now) ==
    IF ~BudgetOwnedBy(bs, id, u)
    THEN BudgetNotFound
    ELSE CheckBudget(Get(data, "amount", bs[id].amount),
                     Get(data, "start_date", bs[id].start_date),
                     Get(data, "end_date", bs[id].end_date),
                     now, BudgetUpdated)

UpdatedBudget(row, data) ==
    [row EXCEPT
        !.name = Get(data, "name", @),
        !.amount = Quantize(Get(data, "amount", @)),
        !.start_date = DateObject(Get(data, "start_date", @).day),
        !.end_date = DateObject(Get(data, "end_date", @).day)]

UpdateBudget(u, id, data) ==
    LET r == UpdateBudgetResponse(budgets, id, u, data, today) IN
    /\ response' = r
    /\ IF r = BudgetUpdated
       THEN /\ categories' =
                   IF "name" \in DOMAIN data
                   THEN GetOrCreateCategory(categories, data.name)
                   ELSE categories
            /\ budgets' = [budgets EXCEPT ![id] = UpdatedBudget(@, data)]
       ELSE UNCHANGED <<categories, budgets>>
    /\ UNCHANGED <<accounts, next_account_id, transactions, sessions,
                   start_balance, bills, next_bill_id, today>>

\* get_transaction_categories: every category, in id order.
GetTransactionCategories ==
    /\ response' = [status |-> 200, text |-> "", body |-> categories]
    /\ UNCHANGED <<accounts, next_account_id, transactions, sessions,
                   start_balance>>
    /\ UNCHANGED planning_vars

----------------------------------------------------------------------------
(* SpecBudgets: the budget routes and the category registry, requests       *)
(* served one at a time while the clock moves on.                           *)

\* Amounts: negative, zero, positive but less than half of 0.01, and 1.
PlanAmountInputs == {0 - One, 0, Quantum \div 2 - 1, One}

\* Dates: today, later days, and a string of another format.
DateInputs == { DateString(d) : d \in 0..(MaxDay + 1) } \cup {BadDateString}

CreateBudgetInputs ==
    { [name |-> n, amount |-> a, start_date |-> s, end_date |-> e] :
        n \in CategoryNames, a \in PlanAmountInputs,
        s \in DateInputs, e \in DateInputs }

\* A field of a patch: absent, or present with one of the values.
OptionalField(field, values) ==
    { << >> } \cup { field :> v : v \in values }

\* A patch holds any of the four fields: a name, an amount that is zero or
\* 1, a start date that is the latest day or malformed, an end date that is
\* one of the two latest days.
UpdateBudgetInputs ==
    { n @@ a @@ s @@ e :
        n \in OptionalField("name", CategoryNames),
        a \in OptionalField("amount", {0, One}),
        s \in OptionalField("start_date",
                            {DateString(MaxDay + 1), BadDateString}),
        e \in OptionalField("end_date",
                            {DateString(MaxDay), DateString(MaxDay + 1)}) }

NextBudgets ==
    \/ \E u \in Users, data \in CreateBudgetInputs : CreateBudget(u, data)
    \/ \E u \in Users, id \in 1..MaxBudgets, data \in UpdateBudgetInputs :
           UpdateBudget(u, id, data)
    \/ GetTransactionCategories
    \/ Tick

SpecBudgets == Init /\ [][NextBudgets]_vars

----------------------------------------------------------------------------
(* create_bill, update_bill, delete_bill *)

DueDateNotFuture == Resp(400, "Due date must be in the future.")
InvalidAccountId == Resp(404, "Invalid account ID.")
BillScheduled == Resp(201, "Bill scheduled successfully")
BillUpdated == Resp(200, "Bill updated successfully")
BillNotFound == Resp(404, "Bill not found")
BillCanceled == Resp(200, "Bill canceled successfully")

\* The checks create_bill and update_bill share, on the amount and the due
\* date as the handler holds them; ok is the response when both pass.
\* Only ValueError is caught: a TypeError of strptime reaches Flask (500).
CheckBill(amount, due_date, now, ok) ==
    LET d == Strptime(due_date) IN
    IF amount <= 0 THEN InvalidAmountNotPositive
    ELSE IF d.raised = "TypeError" THEN ServerError
    ELSE IF d.raised = "ValueError" THEN InvalidDateFormat
    ELSE IF BeforeNow(d.day, now) THEN DueDateNotFuture
    ELSE ok

CreateBillResponse(accts, u, data, now) ==
    LET r == CheckBill(data.amount, data.due_date, now, BillScheduled) IN
    IF r # BillScheduled THEN r
    ELSE IF ~OwnedBy(accts, data.account_id, u) THEN InvalidAccountId
    ELSE BillScheduled

\* Bill(...) as the table stores it.
NewBill(u, data) ==
    [user_id |-> u, biller_name |-> data.biller_name,
     due_date |-> DateObject(data.due_date.day),
     amount |-> Quantize(data.amount), account_id |-> data.account_id]

CreateBill(u, data) ==
    LET r == CreateBillResponse(accounts, u, data, today) IN
    /\ r = BillScheduled => next_bill_id <= MaxBills
    /\ response' = r
    /\ IF r = BillScheduled
       THEN /\ bills' = (next_bill_id :> NewBill(u, data)) @@ bills
            /\ next_bill_id' = next_bill_id + 1
       ELSE UNCHANGED <<bills, next_bill_id>>
    /\ UNCHANGED <<accounts, next_account_id, transactions, sessions,
                   start_balance, budgets, categories, today>>

BillOwnedBy(bls, id, u) == id \in DOMAIN bls /\ bls[id].user_id = u

UpdateBillResponse(bls, id, u, data, now) ==
    IF ~BillOwnedBy(bls, id, u)
    THEN BillNotFound
    ELSE CheckBill(Get(data, "amount", bls[id].amount),
                   Get(data, "due_date", bls[id].due_date),
                   now, BillUpdated)

UpdatedBill(row, data) ==
    [row EXCEPT
        !.biller_name = Get(data, "biller_name", @),
        !.due_date = DateObject(Get(data, "due_date", @).day),
        !.amount = Quantize(Get(data, "amount", @))]

UpdateBill(u, id, data) ==
    LET r == UpdateBillResponse(bills, id, u, data, today) IN
    /\ response' = r
    /\ bills' =
           IF r = BillUpdated
           THEN [bills EXCEPT ![id] = UpdatedBill(@, data)]
           ELSE bills
    /\ UNCHANGED <<accounts, next_account_id, transactions, sessions,
                   start_balance, next_bill_id, budgets, categories, today>>

DeleteBill(u, id) ==
    /\ response' = IF BillOwnedBy(bills, id, u) THEN BillCanceled
                   ELSE BillNotFound
    /\ bills' =
           IF BillOwnedBy(bills, id, u)
           THEN [i \in DOMAIN bills \ {id} |-> bills[i]]
           ELSE bills
    /\ UNCHANGED <<accounts, next_account_id, transactions, sessions,
                   start_balance, next_bill_id, budgets, categories, today>>

----------------------------------------------------------------------------
(* SpecBills: the bill routes and delete_account over two accounts created  *)
(* by create_account with any owners, requests served one at a time while   *)
(* the clock moves on.                                                      *)

BillAccounts == 1..2

InitBills ==
    /\ \E owner \in [BillAccounts -> Users] :
          accounts =
              [id \in BillAccounts |->
                  NewAccount(owner[id],
                             [account_type |-> "savings",
                              account_number |->
                                  Rep(MinAccountNumberLen - 1, "0")
                                      \o <<Digit(id)>>,
                              balance |-> 0])]
    /\ next_account_id = Cardinality(BillAccounts) + 1
    /\ transactions = << >>
    /\ response = NoResponse
    /\ sessions = [h \in Handlers |-> IdleSession]
    /\ start_balance = << >>
    /\ bills = << >>
    /\ next_bill_id = 1
    /\ budgets = << >>
    /\ categories = << >>
    /\ today = 0

\* Bills are created with amount zero or 1, on any day.
CreateBillInputs ==
    { [biller_name |-> "Power", amount |-> a, due_date |-> d,
       account_id |-> acc] :
        a \in {0, One}, d \in DateInputs, acc \in AccountIds }

\* A patch holds any of the three fields: another biller name, an amount
\* that is zero or 2, a due date that is today, the latest day or malformed.
UpdateBillInputs ==
    { n @@ a @@ d :
        n \in OptionalField("biller_name", {"Water"}),
        a \in OptionalField("amount", {0, 2 * One}),
        d \in OptionalField("due_date",
                            {DateString(0), DateString(MaxDay + 1),
                             BadDateString}) }

BillIds == 1..MaxBills

NextBills ==
    \/ \E u \in Users, data \in CreateBillInputs : CreateBill(u, data)
    \/ \E u \in Users, id \in BillIds, data \in UpdateBillInputs :
           UpdateBill(u, id, data)
    \/ \E u \in Users, id \in BillIds : DeleteBill(u, id)
    \/ \E u \in Users, id \in BillAccounts : DeleteAccount(u, id)
    \/ Tick

SpecBills == InitBills /\ [][NextBills]_vars

----------------------------------------------------------------------------
(* Claims about the ledger (Spec).                                          *)

TransferErrors ==
    {UnauthorizedSource, RecipientNotFound, InvalidAmount, InsufficientFunds,
     SameAccountTransfer}

\* C1: after any sequence of create_account, update_account, delete_account
\* and create_transaction requests served one after the other, every
\* existing account has balance >= 0.
C1_BalanceNonNegative ==
    \A id \in DOMAIN accounts : accounts[id].balance >= 0

\* A transfer has just emptied its source account.
C1_Witness ==
    /\ response = TransactionSuccessful
    /\ Len(transactions) = 1
    /\ transactions[1].from_account_id \in DOMAIN accounts
    /\ accounts[transactions[1].from_account_id].balance = 0

\* The contract of a transfer request: the caller owns the source, the
\* recipient exists, 0 < amount <= source balance, and the accounts differ.
C2_Valid(accts, u, data) ==
    /\ data.from_account_id \in DOMAIN accts
    /\ accts[data.from_account_id].user_id = u
    /\ data.to_account_id \in DOMAIN accts
    /\ data.amount.value > 0
    /\ accts[data.from_account_id].balance >= data.amount.value
    /\ data.from_account_id # data.to_account_id

\* C2: a transfer of amount a from F to T that meets the contract, served
\* without interleaving, succeeds and ends in a state where F.balance is the
\* old balance - a, T.balance the old balance + a, exactly one new
\* transaction row (F, T, a) exists and every other account is unchanged;
\* so for 150.75 sent from a balance of 1000.00.
C2_TransferApplied ==
    [][ \A u \in Users, data \in TransferInputs :
          (C2_Valid(accounts, u, data) /\ CreateTransaction(u, data)) =>
              LET f == data.from_account_id
                  t == data.to_account_id
                  a == data.amount.value
              IN
              /\ response' = TransactionSuccessful
              /\ DOMAIN accounts' = DOMAIN accounts
              /\ accounts'[f].balance = accounts[f].balance - a
              /\ accounts'[t].balance = accounts[t].balance + a
              /\ \A id \in DOMAIN accounts \ {f, t} :
                     accounts'[id] = accounts[id]
              /\ Len(transactions') = Len(transactions) + 1
              /\ SubSeq(transactions', 1, Len(transactions)) = transactions
              /\ LET tx == transactions'[Len(transactions')] IN
                     /\ tx.from_account_id = f
                     /\ tx.to_account_id = t
                     /\ tx.amount = a
      ]_vars

\* The first failing check of the contract, in its fixed order.
C5_FirstFailingCheck(accts, u, data) ==
    IF ~(/\ data.from_account_id \in DOMAIN accts
         /\ accts[data.from_account_id].user_id = u)
    THEN UnauthorizedSource
    ELSE IF ~(data.to_account_id \in DOMAIN accts)
    THEN RecipientNotFound
    ELSE IF ~(data.amount.value > 0)
    THEN InvalidAmount
    ELSE IF ~(accts[data.from_account_id].balance >= data.amount.value)
    THEN InsufficientFunds
    ELSE IF ~(data.from_account_id # data.to_account_id)
    THEN SameAccountTransfer
    ELSE TransactionSuccessful

\* C5: create_transaction answers with the error of the first failing check
\* in the order source owned, recipient exists, amount > 0, balance >=
\* amount, accounts differ, and succeeds iff all five pass.
C5_ValidationOrder ==
    [][ \A u \in Users, data \in TransferInputs :
          CreateTransaction(u, data) =>
              response' = C5_FirstFailingCheck(accounts, u, data)
      ]_vars

\* C6, as claimed: every transfer request with from_account_id =
\* to_account_id is answered SameAccountTransfer, whatever the amount and
\* the source balance (here for the requests of the account's owner with a
\* positive amount).
C6_AlwaysSameAccountTransfer ==
    [][ \A u \in Users, data \in TransferInputs :
          (/\ data.from_account_id = data.to_account_id
           /\ OwnedBy(accounts, data.from_account_id, u)
           /\ data.amount.value > 0
           /\ CreateTransaction(u, data)) =>
              response' = SameAccountTransfer
      ]_vars

\* C6, amended: a transfer request with from_account_id = to_account_id
\* never succeeds and changes no table; it is answered SameAccountTransfer
\* exactly when the caller owns the account, the amount is > 0 and the
\* balance is >= the amount, and otherwise with the error of the earlier
\* failing check (UnauthorizedSource, InvalidAmount or InsufficientFunds).
C6_SameAccountFails ==
    /\ [] \A u \in Users, data \in TransferInputs :
            data.from_account_id = data.to_account_id =>
                LET r == CreateTransactionResponse(accounts, u, data)
                    id == data.from_account_id
                IN
                /\ r \in {UnauthorizedSource, InvalidAmount,
                          InsufficientFunds, SameAccountTransfer}
                /\ r = SameAccountTransfer <=>
                       /\ id \in DOMAIN accounts
                       /\ accounts[id].user_id = u
                       /\ data.amount.value > 0
                       /\ accounts[id].balance >= data.amount.value
    /\ [][ response' = SameAccountTransfer =>
               /\ accounts' = accounts
               /\ transactions' = transactions ]_vars

\* A same-account request on an account with funds was answered.
C6_Witness ==
    /\ response = SameAccountTransfer
    /\ \E id \in DOMAIN accounts : accounts[id].balance >= 1

\* C7: a transfer request answered with UnauthorizedSource,
\* RecipientNotFound, InvalidAmount, InsufficientFunds or
\* SameAccountTransfer leaves every account and the transaction table
\* unchanged; a request for more than the source balance is answered
\* InsufficientFunds.
C7_FailedTransferChangesNothing ==
    /\ [] \A u \in Users, data \in TransferInputs :
            (/\ OwnedBy(accounts, data.from_account_id, u)
             /\ data.to_account_id \in DOMAIN accounts
             /\ data.amount.value > accounts[data.from_account_id].balance)
                => CreateTransactionResponse(accounts, u, data)
                       = InsufficientFunds
    /\ [][ response' \in TransferErrors =>
               /\ accounts' = accounts
               /\ transactions' = transactions ]_vars

\* A request for more than the source balance was refused, with two
\* accounts holding money.
C7_Witness ==
    /\ response = InsufficientFunds
    /\ Cardinality({id \in DOMAIN accounts : accounts[id].balance >= 1}) >= 2

----------------------------------------------------------------------------
(* Claims about concurrent transfers (SpecConc).                            *)

AllDone == \A h \in Handlers : sessions[h].pc = "done"

\* C3: NumHandlers concurrent transfers of amount a from one account whose
\* balance is exactly NumHandlers * a all succeed and leave the source
\* balance 0.
C3_ConcurrentTransfers ==
    \A f \in DOMAIN accounts, a \in 1..MaxBalance :
        (/\ AllDone
         /\ start_balance[f] = NumHandlers * a
         /\ \A h \in Handlers :
                /\ sessions[h].user_id = accounts[f].user_id
                /\ sessions[h].data.from_account_id = f
                /\ sessions[h].data.to_account_id \in DOMAIN accounts \ {f}
                /\ sessions[h].data.amount.value = a)
        => /\ \A h \in Handlers :
                  sessions[h].response = TransactionSuccessful
           /\ accounts[f].balance = 0

\* C4: under every interleaving of concurrent transfers, no committed state
\* has an account with a negative balance, and no handler reads one.
C4_NoNegativeBalance ==
    /\ \A id \in DOMAIN accounts : accounts[id].balance >= 0
    /\ \A h \in Handlers :
           /\ sessions[h].pc \in {"read_to", "commit"}
                  => sessions[h].from_balance >= 0
           /\ sessions[h].pc = "commit" => sessions[h].to_balance >= 0

\* Two transfers from the same account have both committed, the second
\* from a balance read before the first was written.
C4_Witness ==
    /\ AllDone
    /\ \A h \in Handlers : sessions[h].response = TransactionSuccessful
    /\ \E f \in DOMAIN accounts :
           /\ \A h \in Handlers : sessions[h].data.from_account_id = f
           /\ accounts[f].balance = 0
           /\ start_balance[f] < 2 * MaxBalance
           /\ \A h \in Handlers : sessions[h].data.amount.value = MaxBalance

----------------------------------------------------------------------------
(* Claims about the account routes (SpecAccounts).                          *)

\* C8: no two accounts share an account_number; create_account with a
\* number some account holds, whoever owns it, is answered
\* DuplicateAccountNumber and adds no account.
C8_UniqueAccountNumber ==
    /\ [] /\ \A i \in DOMAIN accounts, j \in DOMAIN accounts :
                 i # j => accounts[i].account_number
                              # accounts[j].account_number
          /\ \A data \in CreateAccountInputs :
                 (\E id \in DOMAIN accounts :
                      accounts[id].account_number = data.account_number)
                     => CreateAccountResponse(accounts, data)
                            = DuplicateAccountNumber
    /\ [][ response' = DuplicateAccountNumber =>
               accounts' = accounts /\ next_account_id' = next_account_id
         ]_vars

\* A number was refused while the two users each own an account.
C8_Witness ==
    /\ response = DuplicateAccountNumber
    /\ \A u \in Users : \E id \in DOMAIN accounts : accounts[id].user_id = u

\* C9: create_account succeeds iff the number is all digits with length >=
\* 10, is not in use, and the initial balance (0 when absent) is >= 0;
\* otherwise it is answered InvalidAccountNumber, DuplicateAccountNumber or
\* NegativeInitialBalance, checked in that order, and adds no account; on
\* success exactly one account is added, owned by the caller, with the
\* given balance.
C9_CreateAccount ==
    /\ [] \A data \in CreateAccountInputs :
            LET n == data.account_number
                well_formed ==
                    /\ \A i \in 1..Len(n) : n[i] \in DigitChars
                    /\ Len(n) >= 10
                in_use ==
                    \E id \in DOMAIN accounts :
                        accounts[id].account_number = n
                b == IF "balance" \in DOMAIN data THEN data.balance ELSE 0
            IN
            CreateAccountResponse(accounts, data) =
                IF ~well_formed THEN InvalidAccountNumber
                ELSE IF in_use THEN DuplicateAccountNumber
                ELSE IF b < 0 THEN NegativeInitialBalance
                ELSE AccountCreated
    /\ [][ /\ response' \in {InvalidAccountNumber, DuplicateAccountNumber,
                             NegativeInitialBalance}
               => accounts' = accounts /\ next_account_id' = next_account_id
           /\ response' = AccountCreated =>
               \E new \in AccountIds \ DOMAIN accounts :
                   /\ DOMAIN accounts' = DOMAIN accounts \cup {new}
                   /\ \A id \in DOMAIN accounts : accounts'[id] = accounts[id]
                   /\ \A u \in Users, data \in CreateAccountInputs :
                          CreateAccount(u, data) =>
                              /\ accounts'[new].user_id = u
                              /\ accounts'[new].account_number
                                     = data.account_number
                              /\ accounts'[new].account_type
                                     = data.account_type
                              /\ accounts'[new].balance =
                                     IF "balance" \in DOMAIN data
                                     THEN data.balance ELSE 0
         ]_vars

\* An account was created with a number of exactly 10 digits and a positive
\* balance, beside an older account.
C9_Witness ==
    /\ response = AccountCreated
    /\ \E id \in DOMAIN accounts :
           /\ Len(accounts[id].account_number) = 10
           /\ accounts[id].balance > 0
           /\ id + 1 = next_account_id
           /\ id - 1 \in DOMAIN accounts

\* The accounts of the table that user u owns.
C10_Own(accts, u) ==
    [id \in {i \in DOMAIN accts : accts[i].user_id = u} |-> accts[id]]

\* C10: get_account, update_account and delete_account on an account of
\* another user are answered NotFound, as for an id that does not exist,
\* and change nothing: the answers a caller gets are those of the table
\* with every other user's account removed, so two tables that differ only
\* in the accounts of other users give the caller identical answers.
C10_ScopedLookup ==
    /\ [] \A u \in Users, id \in AccountIds :
            LET own == C10_Own(accounts, u) IN
            /\ GetAccountResponse(accounts, id, u)
                   = GetAccountResponse(own, id, u)
            /\ DeleteOutcomes(accounts, transactions, bills, id, u)
                   = DeleteOutcomes(own, transactions, bills, id, u)
            /\ \A data \in UpdateAccountInputs :
                   UpdateAccountResponse(accounts, id, u, data)
                       = UpdateAccountResponse(own, id, u, data)
            /\ (id \in DOMAIN accounts /\ accounts[id].user_id # u) =>
                   /\ GetAccountResponse(accounts, id, u) = AccountNotFound
                   /\ DeleteOutcomes(accounts, transactions, bills, id, u)
                          = {AccountNotFound}
                   /\ \A data \in UpdateAccountInputs :
                          UpdateAccountResponse(accounts, id, u, data)
                              = AccountNotFound
    /\ [][ response' = AccountNotFound =>
               /\ accounts' = accounts
               /\ next_account_id' = next_account_id
               /\ transactions' = transactions ]_vars

\* NotFound was answered while every id ever issued exists, each user
\* owning an account: the request named an account of another user.
C10_Witness ==
    /\ response = AccountNotFound
    /\ DOMAIN accounts = IssuedIds
    /\ \A u \in Users : \E id \in DOMAIN accounts : accounts[id].user_id = u

----------------------------------------------------------------------------
(* C11: update_account with a negative patch balance by the account's owner *)
(* is answered NegativeBalance, whether or not the patch also holds an      *)
(* account_type, and a step answered NegativeBalance leaves the account     *)
(* table as it was, so that every later read of any account answers as      *)
(* before.                                                                  *)
C11_NegativeBalanceChangesNothing ==
    /\ [](\A u \in Users, id \in DOMAIN accounts, data \in UpdateAccountInputs :
            (/\ OwnedBy(accounts, id, u)
             /\ "balance" \in DOMAIN data
             /\ data.balance < 0)
                => UpdateAccountResponse(accounts, id, u, data)
                       = NegativeBalance)
    /\ [][response' = NegativeBalance
            => /\ accounts' = accounts
               /\ \A u \in Users, id \in AccountIds :
                      GetAccountResponse(accounts', id, u)
                          = GetAccountResponse(accounts, id, u)]_vars

\* A negative balance was refused for an account of either type.
C11_Witness ==
    /\ response = NegativeBalance
    /\ \E id \in DOMAIN accounts : accounts[id].account_type = "checking"
    /\ \E id \in DOMAIN accounts : accounts[id].account_type = "savings"

----------------------------------------------------------------------------
(* C12: the transaction log is append-only.  Every step keeps each          *)
(* committed Transaction row in place with the fields it has, whatever the  *)
(* request (update_account and delete_account of the accounts the row       *)
(* references included), and the log changes only by the one row that a     *)
(* successful create_transaction appends.                                   *)
C12_AppendOnlyLog ==
    [][/\ Len(transactions') >= Len(transactions)
       /\ \A i \in 1..Len(transactions) : transactions'[i] = transactions[i]
       /\ transactions' # transactions
              => /\ Len(transactions') = Len(transactions) + 1
                 /\ response' = TransactionSuccessful]_vars

\* A committed row whose source account has since been deleted.
C12_Witness ==
    /\ Len(transactions) > 0
    /\ transactions[1].from_account_id \notin DOMAIN accounts
    /\ response = AccountDeleted

----------------------------------------------------------------------------
(* C13: once a transfer is committed, get_transactions of a user with       *)
(* account_id = X answers with exactly the transactions whose               *)
(* from_account_id is X and whose source account belongs to the user: none  *)
(* in which X is only the recipient, none whose source account is another   *)
(* user's.                                                                  *)
C13_Expected(txs, accts, u, x) ==
    { i \in 1..Len(txs) :
        /\ txs[i].from_account_id = x
        /\ x \in DOMAIN accts
        /\ accts[x].user_id = u }

C13_SourceLegFilter ==
    Len(transactions) > 0
        => \A u \in Users, x \in AccountIds :
               LET r == GetTransactionsResponse(transactions, accounts, u, x) IN
               /\ r.status = 200
               /\ r.body = RowsOf(transactions,
                                  C13_Expected(transactions, accounts, u, x))

----------------------------------------------------------------------------
(* C14: create_budget with amount <= 0 is answered InvalidAmount; with a    *)
(* positive amount and a start date that is not after today, or an end      *)
(* date before the start date, it is answered with one of the two date      *)
(* range errors; a request answered with an error adds no budget and no     *)
(* category; and every stored budget has amount > 0 and                     *)
(* end_date >= start_date.                                                  *)
C14_Refusals ==
    \A data \in CreateBudgetInputs :
        LET r == CreateBudgetResponse(data, today) IN
        /\ data.amount <= 0 => r = InvalidAmountNotPositive
        /\ (/\ data.amount > 0
            /\ data.start_date.well_formed
            /\ data.end_date.well_formed
            /\ \/ data.start_date.day <= today
               \/ data.end_date.day < data.start_date.day)
               => r \in {StartDateNotFuture, StartAfterEnd}

C14_FailureAddsNothing ==
    [][response'.status >= 400
          => budgets' = budgets /\ categories' = categories]_vars

C14_StoredDates ==
    \A i \in 1..Len(budgets) :
        budgets[i].end_date.day >= budgets[i].start_date.day

C14_StoredAmounts ==
    \A i \in 1..Len(budgets) : budgets[i].amount > 0

C14_CreateBudget ==
    /\ [](C14_Refusals /\ C14_StoredDates /\ C14_StoredAmounts)
    /\ C14_FailureAddsNothing

----------------------------------------------------------------------------
(* C15: after any sequence of create_budget and update_budget calls no two  *)
(* categories share a name and every stored budget's name is the name of a  *)
(* category; naming an existing category adds none; and no step removes or  *)
(* renames a category.                                                      *)
C15_CategoryRegistry ==
    /\ [](/\ \A i, j \in 1..Len(categories) :
                 categories[i] = categories[j] => i = j
          /\ \A i \in 1..Len(budgets) : HasCategory(categories, budgets[i].name)
          /\ \A name \in CategoryNames :
                 HasCategory(categories, name)
                     => GetOrCreateCategory(categories, name) = categories)
    /\ [][/\ Len(categories') >= Len(categories)
           /\ \A i \in 1..Len(categories) : categories'[i] = categories[i]]_vars

\* Two budgets under one category, the second of them renamed by
\* update_budget.
C15_Witness ==
    /\ Len(budgets) = 2
    /\ budgets[1].name = budgets[2].name
    /\ Len(categories) = 2
    /\ response = BudgetUpdated

----------------------------------------------------------------------------
----------------------------------------------------------------------------
(* C17: update_bill checks the merged values, the stored value standing in  *)
(* for each field the patch omits: whenever the merged amount is > 0 and    *)
(* the merged due date is well formed and after today the request of the    *)
(* bill's owner succeeds, and a successful update changes the supplied      *)
(* fields of that bill and nothing else.                                    *)
C17_MergedAmount(bls, id, data) == Get(data, "amount", bls[id].amount)

C17_MergedDueDate(bls, id, data) == Get(data, "due_date", bls[id].due_date)

C17_UpdateBillMerged ==
    /\ [](\A u \in Users, id \in DOMAIN bills, data \in UpdateBillInputs :
            (/\ BillOwnedBy(bills, id, u)
             /\ C17_MergedAmount(bills, id, data) > 0
             /\ C17_MergedDueDate(bills, id, data).well_formed
             /\ C17_MergedDueDate(bills, id, data).day > today)
                => UpdateBillResponse(bills, id, u, data, today) = BillUpdated)
    /\ [][response' = BillUpdated
            => /\ DOMAIN bills' = DOMAIN bills
               /\ \A b \in DOMAIN bills :
                      /\ bills'[b].user_id = bills[b].user_id
                      /\ bills'[b].account_id = bills[b].account_id
               /\ Cardinality({ b \in DOMAIN bills : bills'[b] # bills[b] })
                      <= 1]_vars

----------------------------------------------------------------------------
(* C18: in every reachable state every committed Transaction row has        *)
(* from_account_id different from to_account_id and amount > 0.             *)
C18_CommittedTransactions ==
    \A i \in 1..Len(transactions) :
        /\ transactions[i].from_account_id # transactions[i].to_account_id
        /\ transactions[i].amount > 0

\* A same-account transfer with sufficient funds was refused while the log
\* holds a committed row.
C18_Witness ==
    /\ Len(transactions) > 0
    /\ response = SameAccountTransfer

----------------------------------------------------------------------------
(* C19: once all concurrent create_transaction handlers have completed,     *)
(* every account's balance is its balance at the start plus the amounts of  *)
(* the committed transactions crediting it minus the amounts of those       *)
(* debiting it, and the sum of all balances is the sum at the start.        *)
RECURSIVE C19_Net(_, _)
C19_Net(txs, id) ==
    IF txs = << >> THEN 0
    ELSE LET t == Head(txs) IN
         (IF t.to_account_id = id THEN t.amount ELSE 0)
             - (IF t.from_account_id = id THEN t.amount ELSE 0)
             + C19_Net(Tail(txs), id)

RECURSIVE C19_Sum(_, _)
C19_Sum(f, ids) ==
    IF ids = {} THEN 0
    ELSE LET id == CHOOSE x \in ids : TRUE IN
         f[id] + C19_Sum(f, ids \ {id})

C19_Conservation ==
    AllDone
        => /\ \A id \in DOMAIN accounts :
                  accounts[id].balance
                      = start_balance[id] + C19_Net(transactions, id)
           /\ C19_Sum([id \in DOMAIN accounts |-> accounts[id].balance],
                      DOMAIN accounts)
                  = C19_Sum(start_balance, DOMAIN accounts)

----------------------------------------------------------------------------
(* C20: delete_account by the owner of an existing account always succeeds, *)
(* whether or not transactions or bills reference the account, and a        *)
(* successful delete removes exactly that account and leaves every other    *)
(* account, every Transaction row and every bill unchanged.                 *)
C20_DeleteAlwaysSucceeds ==
    /\ [](\A u \in Users, id \in DOMAIN accounts :
            OwnedBy(accounts, id, u)
                => DeleteOutcomes(accounts, transactions, bills, id, u)
                       = {AccountDeleted})
    /\ [][response' = AccountDeleted
            => /\ \E id \in DOMAIN accounts : accounts' = Without(accounts, id)
               /\ transactions' = transactions
               /\ bills' = bills]_vars

----------------------------------------------------------------------------
(* C21: in any serial sequence of operations, an operation of user u never  *)
(* deletes an account owned by another user, never changes its type, owner  *)
(* or number and never decreases its balance; the balance of another        *)
(* user's account grows only by the amount of a successful transfer that u  *)
(* sends to it from an account u owns.                                      *)

\* The step is an operation of user u.
C21_StepBy(u) ==
    \/ \E id \in ConcAccounts, data \in OwnerUpdateInputs :
           UpdateAccount(u, id, data)
    \/ \E id \in ConcAccounts : DeleteAccount(u, id)
    \/ \E data \in OwnerTransferInputs : CreateTransaction(u, data)

\* What the step does to the accounts that u does not own.
C21_OthersSafe(u) ==
    \A id \in DOMAIN accounts :
        accounts[id].user_id # u
            => /\ id \in DOMAIN accounts'
               /\ accounts'[id].user_id = accounts[id].user_id
               /\ accounts'[id].account_type = accounts[id].account_type
               /\ accounts'[id].account_number = accounts[id].account_number
               /\ accounts'[id].balance >= accounts[id].balance
               /\ accounts'[id].balance > accounts[id].balance
                      => /\ response' = TransactionSuccessful
                         /\ Len(transactions') = Len(transactions) + 1
                         /\ LET t == transactions'[Len(transactions')] IN
                            /\ t.to_account_id = id
                            /\ OwnedBy(accounts, t.from_account_id, u)
                            /\ accounts'[id].balance
                                   = accounts[id].balance + t.amount

C21_CrossUserSafety ==
    [][\A u \in Users : C21_OthersSafe(u) \/ ~C21_StepBy(u)]_vars

\* A transfer has credited an account of another user.
C21_Witness ==
    /\ response = TransactionSuccessful
    /\ Len(transactions) > 0
    /\ LET t == transactions[Len(transactions)] IN
       /\ t.from_account_id \in DOMAIN accounts
       /\ t.to_account_id \in DOMAIN accounts
       /\ accounts[t.from_account_id].user_id
              # accounts[t.to_account_id].user_id
       /\ accounts[t.to_account_id].balance
              = start_balance[t.to_account_id] + t.amount

====
